---- MODULE Spec2Model ----
(***************************************************************************)
(* Key lifecycle and settings export of the Claude Code API manager.       *)
(*                                                                         *)
(* The secrets file (.env), the metadata file (keys_metadata.json) and the *)
(* settings file (settings.json) are the persistent state; os.environ is   *)
(* the state of the running process, filled by load_dotenv and never       *)
(* overridden by it.  Every command is a synchronous read-modify-write.    *)
(***************************************************************************)
EXTENDS Integers, Sequences, FiniteSets, TLC

VARIABLES
    envFile,    \* secrets file: key name -> text stored between the quotes
    environ,    \* os.environ of the running process: key name -> value
    metadata,   \* metadata file: records in the insertion order of the JSON object
    settings,   \* settings.json: absent, unparseable, or a document
    now,        \* the wall clock read by datetime.now()
    pc,         \* position inside use_cmd ("idle" between commands)
    use,        \* locals of the running use_cmd
    last,       \* the operation the last step performed, and its outcome
    mtime,      \* st_mtime of settings.json
    backups,    \* settings.backup.<stamp>.json files: stamp -> mtime and content
    call,       \* a direct call of ExportClaudeSettings: arguments and result
    modes       \* permission bits of the secrets file and of the metadata file

vars == <<envFile, environ, metadata, settings, now, pc, use, last, mtime, backups, call,
          modes>>

----------------------------------------------------------------------------
(* Bounds of the model *)

MaxValLen == 3

\* the clock reads 0..MaxClock
MaxClock == 2

\* cleanup_old_backups is called with keep in 0..MaxKeep
MaxKeep == 1

(* Inputs *)

Names == {"WORK", "PERSONAL"}

PROVIDERS == <<"anthropic", "glm", "kimi">>

Providers == {PROVIDERS[i] : i \in DOMAIN PROVIDERS}

\* characters a key value is made of: a plain one, the backslash, the quote
Alphabet == {"k", "\\", "'"}

AllValues == UNION {[1..n -> Alphabet] : n \in 1..MaxValLen}

\* the two values the commands of Spec are run with: one shorter than the
\* validator's minimum length, one of that length
KeyValues == {<<"k">>, [i \in 1..10 |-> "k"]}

----------------------------------------------------------------------------
(* dotenv: set_key writes NAME='value' with every quote escaped; the reader *)
(* takes the text between the quotes and decodes \\ and \' .               *)

RECURSIVE QuoteValue(_)
QuoteValue(v) ==
    IF v = <<>> THEN <<>>
    ELSE IF Head(v) = "'" THEN <<"\\", "'">> \o QuoteValue(Tail(v))
    ELSE <<Head(v)>> \o QuoteValue(Tail(v))

RECURSIVE DecodeEscapes(_)
DecodeEscapes(r) ==
    IF r = <<>> THEN <<>>
    ELSE IF Head(r) = "\\" /\ Len(r) >= 2 /\ r[2] \in {"\\", "'"}
         THEN <<r[2]>> \o DecodeEscapes(Tail(Tail(r)))
    ELSE <<Head(r)>> \o DecodeEscapes(Tail(r))

SetKey(file, name, value) ==
    [n \in DOMAIN file \cup {name} |->
        IF n = name THEN QuoteValue(value) ELSE file[n]]

UnsetKey(file, name) == [n \in DOMAIN file \ {name} |-> file[n]]

\* load_dotenv(env_path), override=False: a name the process already has keeps
\* its value
LoadDotenv(file, env) ==
    [n \in DOMAIN file \cup DOMAIN env |->
        IF n \in DOMAIN env THEN env[n] ELSE DecodeEscapes(file[n])]

----------------------------------------------------------------------------
(* KeyManager *)

KeyExists(file, env, name) == name \in DOMAIN LoadDotenv(file, env)

\* get_key_value: [ok |-> TRUE, value |-> v] or the KeyError
GetKeyValue(file, env, name) ==
    LET e == LoadDotenv(file, env) IN
    IF name \in DOMAIN e /\ e[name] # <<>>
    THEN [ok |-> TRUE, value |-> e[name]]
    ELSE [ok |-> FALSE, value |-> <<>>]

APIKey(name, provider, status, t) ==
    [name |-> name, provider |-> provider, status |-> status,
     created_at |-> t, updated_at |-> t]

----------------------------------------------------------------------------
(* KeyValidator.validate for a service that has no entry in PATTERNS, which *)
(* is the case of every provider of PROVIDERS: the key is not blank and has *)
(* at least MinKeyLength characters                                         *)

MinKeyLength == 10

Whitespace == {" ", "\t", "\n"}

IsBlank(key) == \A i \in DOMAIN key : key[i] \in Whitespace

KeyValidatorValidate(key, service) == ~IsBlank(key) /\ Len(key) >= MinKeyLength

----------------------------------------------------------------------------
(* MetadataManager *)

MetaNames(md) == {md[i].name : i \in DOMAIN md}

MetaIndex(md, name) == CHOOSE i \in DOMAIN md : md[i].name = name

GetMetadata(md, name) == md[MetaIndex(md, name)]

\* save_metadata stamping created_at anew on every write
SaveMetadataResetsCreated(md, key, t) ==
    IF key.name \in MetaNames(md)
    THEN [md EXCEPT ![MetaIndex(md, key.name)] =
            [key EXCEPT !.created_at = t, !.updated_at = t]]
    ELSE Append(md, key)

\* save_metadata storing the created_at of the record it is handed
SaveMetadataKeepsNewCreated(md, key, t) ==
    IF key.name \in MetaNames(md)
    THEN [md EXCEPT ![MetaIndex(md, key.name)] = [key EXCEPT !.updated_at = t]]
    ELSE Append(md, key)

SaveMetadata(md, key, t) ==
    IF key.name \in MetaNames(md)
    THEN [md EXCEPT ![MetaIndex(md, key.name)] =
            [key EXCEPT !.created_at = md[MetaIndex(md, key.name)].created_at,
                        !.updated_at = t]]
    ELSE Append(md, key)

\* delete_metadata returning without removing the record
DeleteMetadataKeeps(md, name) == md

DeleteMetadata(md, name) == SelectSeq(md, LAMBDA r : r.name # name)

ActiveIndexes(md) == {i \in DOMAIN md : md[i].status = "active"}

ActiveNames(md) == {md[i].name : i \in ActiveIndexes(md)}

HasActiveKey(md) == ActiveIndexes(md) # {}

\* get_active_key: the first active record in the order of the file
GetActiveKey(md) ==
    md[CHOOSE i \in ActiveIndexes(md) : \A j \in ActiveIndexes(md) : i <= j]

\* set_active_key building the record with the status left "inactive"
SetActiveKeyStaysInactive(md, name, t) ==
    APIKey(name, GetMetadata(md, name).provider, "inactive", t)

SetActiveKey(md, name, t) == APIKey(name, GetMetadata(md, name).provider, "active", t)

\* set_inactive_key building the record with the status left "active"
SetInactiveKeyStaysActive(md, name, t) ==
    APIKey(name, GetMetadata(md, name).provider, "active", t)

SetInactiveKey(md, name, t) == APIKey(name, GetMetadata(md, name).provider, "inactive", t)

----------------------------------------------------------------------------
(* Settings documents: a JSON object is Obj(f) with f a function from keys   *)
(* to JSON values, any other JSON value is Val(v) with v its text.          *)

Obj(f) == [t |-> "obj", f |-> f]

Val(v) == [t |-> "val", v |-> v]

IsObj(j) == j.t = "obj"

PROVIDER_URLS ==
    [anthropic |-> <<"https://api.anthropic.com">>,
     glm |-> <<"https://api.z.ai/api/anthropic">>]

PROVIDER_MODELS ==
    [anthropic |-> << <<"claude-3-haiku-20240307">>,
                      <<"claude-3-5-sonnet-20241022">>,
                      <<"claude-3-opus-20240229">> >>,
     glm |-> << <<"glm-4.5">>, <<"glm-4.6">>, <<"glm-4.7">> >>]

\* _prepare_settings raises for a provider without a base URL
CanPrepare(provider) == provider \in DOMAIN PROVIDER_URLS

PrepareSettings(token, provider) ==
    Obj([k \in {"env", "alwaysThinkingEnabled"} |->
        IF k = "env"
        THEN Obj([e \in {"ANTHROPIC_DEFAULT_HAIKU_MODEL",
                         "ANTHROPIC_DEFAULT_SONNET_MODEL",
                         "ANTHROPIC_DEFAULT_OPUS_MODEL",
                         "ANTHROPIC_AUTH_TOKEN",
                         "ANTHROPIC_BASE_URL",
                         "API_TIMEOUT_MS",
                         "CLAUDE_CODE_DISABLE_NONESSENTIAL_TRAFFIC"} |->
                CASE e = "ANTHROPIC_DEFAULT_HAIKU_MODEL" ->
                        Val(PROVIDER_MODELS[provider][1])
                  [] e = "ANTHROPIC_DEFAULT_SONNET_MODEL" ->
                        Val(PROVIDER_MODELS[provider][2])
                  [] e = "ANTHROPIC_DEFAULT_OPUS_MODEL" ->
                        Val(PROVIDER_MODELS[provider][3])
                  [] e = "ANTHROPIC_AUTH_TOKEN" ->
                        Val(IF token = <<>> THEN <<"placeholder-token">> ELSE token)
                  [] e = "ANTHROPIC_BASE_URL" -> Val(PROVIDER_URLS[provider])
                  [] e = "API_TIMEOUT_MS" -> Val(<<"30000">>)
                  [] OTHER -> Val(<<"false">>)])
        ELSE Val(<<"true">>)])

\* _deep_merge as dict.update: a nested object of update replaces the one of base
DeepMergeShallow(base, update) ==
    Obj([k \in DOMAIN base.f \cup DOMAIN update.f |->
        IF k \in DOMAIN update.f THEN update.f[k] ELSE base.f[k]])

RECURSIVE DeepMerge(_, _)
DeepMerge(base, update) ==
    Obj([k \in DOMAIN base.f \cup DOMAIN update.f |->
        IF k \notin DOMAIN update.f THEN base.f[k]
        ELSE IF k \in DOMAIN base.f /\ IsObj(base.f[k]) /\ IsObj(update.f[k])
             THEN DeepMerge(base.f[k], update.f[k])
             ELSE update.f[k]])

(* JSON documents handed to _deep_merge and _generate_diff: objects over   *)
(* TopKeys whose values are scalars or objects over NestedKeys            *)

JsonLeaves == {Val(<<"1">>), Val(<<"true">>)}

TopKeys == {"a", "b"}

NestedKeys == {"x", "y"}

FunctionsOn(keys, values) == UNION {[d -> values] : d \in SUBSET keys}

JsonNested == {Obj(f) : f \in FunctionsOn(NestedKeys, JsonLeaves)}

JsonDocs == {Obj(f) : f \in FunctionsOn(TopKeys, JsonLeaves \cup JsonNested)}

\* the documents of the merge scenario
ExampleExisting ==
    Obj([k \in {"env", "alwaysThinkingEnabled"} |->
        IF k = "env" THEN Obj([e \in {"API_TIMEOUT_MS"} |-> Val(<<"5000">>)])
        ELSE Val(<<"false">>)])

ExampleNew ==
    Obj([k \in {"env", "alwaysThinkingEnabled"} |->
        IF k = "env" THEN Obj([e \in {"ANTHROPIC_AUTH_TOKEN"} |-> Val(<<"\"tok\"">>)])
        ELSE Val(<<"true">>)])

MergeInputs == (JsonDocs \X JsonDocs) \cup {<<ExampleExisting, ExampleNew>>}

\* before is None when export_settings has not loaded the existing file
None == [t |-> "null"]

\* Python's == on values read by json.load: True == 1 and False == 0, and
\* dicts are equal when they have the same keys with equal values
RECURSIVE PyKey(_)
PyKey(j) ==
    IF IsObj(j) THEN Obj([k \in DOMAIN j.f |-> PyKey(j.f[k])])
    ELSE IF j.v = <<"true">> THEN Val(<<"1">>)
    ELSE IF j.v = <<"false">> THEN Val(<<"0">>)
    ELSE j

PyEquals(a, b) == PyKey(a) = PyKey(b)

GenerateDiff(before, after) ==
    [before |-> before, after |-> after,
     changes |->
        IF before = None THEN [type |-> "create", added |-> after]
        ELSE [type |-> "update",
              added |-> [k \in DOMAIN after.f \ DOMAIN before.f |-> after.f[k]],
              modified |->
                 [k \in {j \in DOMAIN before.f \cap DOMAIN after.f :
                            ~PyEquals(before.f[j], after.f[j])} |->
                    [old |-> before.f[k], new |-> after.f[k]]],
              removed |-> [k \in DOMAIN before.f \ DOMAIN after.f |-> before.f[k]]]]

Absent == [kind |-> "absent"]

Corrupt == [kind |-> "corrupt"]

Doc(d) == [kind |-> "doc", doc |-> d]

\* _load_existing_settings returning None for a file that is not JSON
CanLoadSwallows(file) == TRUE

\* _load_existing_settings raises for a file that is there and is not JSON
CanLoad(file) == file.kind # "corrupt"

\* the document export_settings builds: merged over the existing one with
\* merge=True and a non-empty existing document, the new one otherwise
FinalSettings(file, token, provider, merge) ==
    IF merge /\ file.kind = "doc" /\ DOMAIN file.doc.f # {}
    THEN DeepMerge(file.doc, PrepareSettings(token, provider))
    ELSE PrepareSettings(token, provider)

\* export_settings raises before it writes anything
ExportRaises(file, provider, merge) ==
    \/ merge /\ ~CanLoad(file)
    \/ ~CanPrepare(provider)

\* a settings file the user already has
UserSettings ==
    Doc(Obj([k \in {"env", "alwaysThinkingEnabled", "theme"} |->
        IF k = "env"
        THEN Obj([e \in {"API_TIMEOUT_MS", "MY_VAR"} |->
                IF e = "API_TIMEOUT_MS" THEN Val(<<"5000">>) ELSE Val(<<"x">>)])
        ELSE IF k = "theme" THEN Val(<<"dark">>) ELSE Val(<<"false">>)]))

InitialSettings == {Absent, Corrupt, UserSettings}

----------------------------------------------------------------------------
(* KeyManager.add_key and delete_key: the outcome, the secrets file and     *)
(* os.environ afterwards (key_exists has run load_dotenv)                   *)

\* add_key without the key_exists check
AddKeyOverwrites(file, env, name, value) ==
    [res |-> "ok", file |-> SetKey(file, name, value), env |-> LoadDotenv(file, env)]

AddKey(file, env, name, value) ==
    IF KeyExists(file, env, name)
    THEN [res |-> "ValueError", file |-> file, env |-> LoadDotenv(file, env)]
    ELSE [res |-> "ok", file |-> SetKey(file, name, value),
          env |-> LoadDotenv(file, env)]

DeleteKey(file, env, name) ==
    IF ~KeyExists(file, env, name)
    THEN [res |-> "KeyError", file |-> file, env |-> LoadDotenv(file, env)]
    ELSE [res |-> "ok", file |-> UnsetKey(file, name),
          env |-> LoadDotenv(file, env)]

----------------------------------------------------------------------------
NoValue == <<>>

Done(op, name, res, val) == [op |-> op, name |-> name, res |-> res, val |-> val]

NoUse == [name |-> "", value |-> NoValue, provider |-> "", merge |-> FALSE,
          previous |-> ""]

NoCall == [fn |-> "none"]

\* _ensure_env_file and _ensure_metadata_file create a missing file with mode
\* 0600 and leave a file that is already there as it is
InitialModes == [env : {"0600", "0644"}, meta : {"0600", "0644"}]

SecureModes == [env |-> "0600", meta |-> "0600"]

Init ==
    /\ envFile = <<>>
    /\ environ = <<>>
    /\ metadata = <<>>
    /\ settings \in InitialSettings
    /\ now = 0
    /\ pc = "idle"
    /\ use = NoUse
    /\ last = Done("init", "", "ok", NoValue)
    /\ mtime = 0
    /\ backups = <<>>
    /\ call = NoCall
    /\ modes = SecureModes

(* A file write either succeeds or raises.  When it raises the file keeps   *)
(* its content (it could not be opened) or is left cut short (the write     *)
(* stopped midway): an unreadable metadata file loads as {}, an unreadable  *)
(* settings file is not JSON.                                               *)
WriteOutcomes == {"ok", "unwritten", "truncated"}

\* the secrets file after dotenv's set_key or unset_key: the rewritten copy
\* is a temporary file, created with mode 0600 and moved into place
SetKeyMode(mode) == "0600"

\* _write_metadata without the chmod
WriteMetadataModeUnchanged(mode, w) == mode

\* _write_metadata: write_text, then chmod(0o600) when the write has not raised
WriteMetadataMode(mode, w) == IF w = "ok" THEN "0600" ELSE mode

WriteMetadata(old, new, w) ==
    IF w = "ok" THEN new ELSE IF w = "unwritten" THEN old ELSE <<>>

WriteSettings(old, new, w) ==
    IF w = "ok" THEN new ELSE IF w = "unwritten" THEN old ELSE Corrupt

\* st_mtime of a file after open(path, "w") and the write
WriteMtime(old, t, w) == IF w = "unwritten" THEN old ELSE t

----------------------------------------------------------------------------
(* add: add_cmd (cli, with _validate_name first) or add_key followed by     *)
(* save_metadata as add_cmd composes them                                   *)

AddCmd(name, provider, value, cli, w) ==
    /\ pc = "idle"
    /\ cli \/ provider \in Providers
    /\ LET r == AddKey(envFile, environ, name, value) IN
       /\ environ' = r.env
       /\ IF r.res # "ok"
          THEN /\ last' = Done("add", name,
                               IF cli THEN "Exit: already exists" ELSE r.res, value)
               /\ UNCHANGED <<envFile, metadata, modes>>
          ELSE IF provider \notin Providers
          THEN /\ last' = Done("add", name, "Exit: invalid provider", value)
               /\ UNCHANGED <<envFile, metadata, modes>>
          ELSE /\ envFile' = r.file
               /\ modes' = [env |-> SetKeyMode(modes.env),
                            meta |-> WriteMetadataMode(modes.meta, w)]
               /\ metadata' = WriteMetadata(metadata,
                     SaveMetadata(metadata, APIKey(name, provider, "inactive", now), now), w)
               /\ last' = Done("add", name, IF w = "ok" THEN "ok" ELSE "IOError", value)
    /\ UNCHANGED <<settings, now, pc, use, mtime, backups, call>>

(* delete_cmd *)
DeleteCmd(name, w) ==
    /\ pc = "idle"
    /\ LET r == DeleteKey(envFile, environ, name) IN
       /\ environ' = r.env
       /\ IF r.res # "ok"
          THEN /\ last' = Done("delete", name, r.res, NoValue)
               /\ UNCHANGED <<envFile, metadata, modes>>
          ELSE IF name \notin MetaNames(metadata)
          THEN /\ envFile' = r.file
               /\ last' = Done("delete", name, "ok", NoValue)
               /\ UNCHANGED metadata
               /\ modes' = [modes EXCEPT !.env = SetKeyMode(modes.env)]
          ELSE /\ envFile' = r.file
               /\ modes' = [env |-> SetKeyMode(modes.env),
                            meta |-> WriteMetadataMode(modes.meta, w)]
               /\ metadata' = WriteMetadata(metadata, DeleteMetadata(metadata, name), w)
               /\ last' = Done("delete", name, IF w = "ok" THEN "ok" ELSE "IOError",
                               NoValue)
    /\ UNCHANGED <<settings, now, pc, use, mtime, backups, call>>

(* KeyManager.get_key_value *)
GetValue(name) ==
    /\ pc = "idle"
    /\ environ' = LoadDotenv(envFile, environ)
    /\ LET r == GetKeyValue(envFile, environ, name) IN
       last' = Done("get", name, IF r.ok THEN "ok" ELSE "KeyError", r.value)
    /\ UNCHANGED <<envFile, metadata, settings, now, pc, use, mtime, backups, call, modes>>

(* KeyManager.update_key: the secret is written only when a new value and a *)
(* provider are both given, as _get_provider_from_metadata returns None;    *)
(* no metadata is written                                                   *)
NoProvider == ""

GetProviderFromMetadata(md, name) == NoProvider

UpdateKey(name, new_value, provider) ==
    /\ pc = "idle"
    /\ environ' = LoadDotenv(envFile, environ)
    /\ call' = [fn |-> "update_key", provider |-> provider]
    /\ IF ~KeyExists(envFile, environ, name)
       THEN /\ last' = Done("update", name, "KeyError", new_value)
            /\ UNCHANGED <<envFile, modes>>
       ELSE LET provider_to_check ==
                    IF provider # NoProvider THEN provider
                    ELSE GetProviderFromMetadata(metadata, name)
            IN  /\ last' = Done("update", name, "ok", new_value)
                /\ IF new_value # NoValue /\ provider_to_check # NoProvider
                   THEN /\ envFile' = SetKey(envFile, name, new_value)
                        /\ modes' = [modes EXCEPT !.env = SetKeyMode(modes.env)]
                   ELSE UNCHANGED <<envFile, modes>>
    /\ UNCHANGED <<metadata, settings, now, pc, use, mtime, backups>>

(* deactivate: set_inactive_key followed by save_metadata *)
Deactivate(name, w) ==
    /\ pc = "idle"
    /\ IF name \notin MetaNames(metadata)
       THEN /\ last' = Done("deactivate", name, "KeyError", NoValue)
            /\ UNCHANGED <<metadata, modes>>
       ELSE /\ metadata' = WriteMetadata(metadata,
                  SaveMetadata(metadata, SetInactiveKey(metadata, name, now), now), w)
            /\ modes' = [modes EXCEPT !.meta = WriteMetadataMode(modes.meta, w)]
            /\ last' = Done("deactivate", name, IF w = "ok" THEN "ok" ELSE "IOError",
                            NoValue)
    /\ UNCHANGED <<envFile, environ, settings, now, pc, use, mtime, backups, call>>

(* a new process starts: os.environ holds none of the key names *)
NewProcess ==
    /\ pc = "idle"
    /\ environ # <<>>
    /\ environ' = <<>>
    /\ last' = Done("process", "", "ok", NoValue)
    /\ UNCHANGED <<envFile, metadata, settings, now, pc, use, mtime, backups, call, modes>>

----------------------------------------------------------------------------
(* use_cmd.  pc = "previewed": the preview is shown and the confirmation   *)
(* prompt is open; "exported": settings.json is written; "deactivated":    *)
(* the previous active key has been dealt with.                            *)

EndUse(name, res) ==
    /\ pc' = "idle"
    /\ use' = NoUse
    /\ last' = Done("use", name, res, NoValue)

GoOn(name, value, provider, merge, to) ==
    /\ pc' = to
    /\ use' = [name |-> name, value |-> value, provider |-> provider, merge |-> merge,
               previous |-> ""]
    /\ last' = Done("use", name, to, NoValue)

\* use_cmd going on to the metadata writes whatever the export did
ExportAndGoOnDespiteFailure(name, value, provider, merge, w) ==
    /\ settings' = IF ExportRaises(settings, provider, merge) THEN settings
                   ELSE WriteSettings(settings,
                            Doc(FinalSettings(settings, value, provider, merge)), w)
    /\ mtime' = IF ExportRaises(settings, provider, merge) THEN mtime
                ELSE WriteMtime(mtime, now, w)
    /\ GoOn(name, value, provider, merge, "exported")

\* export_settings(key_value, provider, merge=merge, preview=False) and the
\* way use_cmd goes on from it
ExportAndGoOn(name, value, provider, merge, w) ==
    IF ExportRaises(settings, provider, merge)
    THEN /\ EndUse(name, "ExportError")
         /\ UNCHANGED <<settings, mtime>>
    ELSE /\ settings' = WriteSettings(settings,
                Doc(FinalSettings(settings, value, provider, merge)), w)
         /\ mtime' = WriteMtime(mtime, now, w)
         /\ IF w = "ok"
            THEN GoOn(name, value, provider, merge, "exported")
            ELSE EndUse(name, "export failed")

\* export_settings writing the file before it looks at preview
PreviewAndGoOnWrites(name, value, provider, merge, interactive_preview) ==
    IF ExportRaises(settings, provider, merge)
    THEN EndUse(name, "ExportError") /\ UNCHANGED <<settings, mtime>>
    ELSE /\ settings' = Doc(FinalSettings(settings, value, provider, merge))
         /\ mtime' = now
         /\ IF interactive_preview
            THEN GoOn(name, value, provider, merge, "previewed")
            ELSE EndUse(name, "preview")

\* export_settings(..., preview=True): the diff is returned, nothing is written
PreviewAndGoOn(name, value, provider, merge, interactive_preview) ==
    /\ IF ExportRaises(settings, provider, merge)
       THEN EndUse(name, "ExportError")
       ELSE IF interactive_preview
       THEN GoOn(name, value, provider, merge, "previewed")
       ELSE EndUse(name, "preview")
    /\ UNCHANGED <<settings, mtime>>

PromptChoices == {"merge", "overwrite", "preview", "cancel"}

ConfirmChoices == {"merge", "overwrite", "cancel"}

\* use_cmd checking only key_value after the lookup, and exporting for the
\* default provider when there is no metadata record
UseBeginSkipsMetadataCheck(name, interactive, merge, preview, choice, w) ==
    /\ pc = "idle"
    /\ (interactive /\ ~merge /\ settings.kind # "absent") \/ choice = "overwrite"
    /\ environ' = LoadDotenv(envFile, environ)
    /\ LET kv == GetKeyValue(envFile, environ, name)
           prompt == interactive /\ ~merge /\ settings.kind # "absent"
           provider == IF name \in MetaNames(metadata)
                       THEN GetMetadata(metadata, name).provider ELSE "anthropic"
       IN  IF ~kv.ok
           THEN /\ EndUse(name, "KeyError")
                /\ UNCHANGED <<settings, mtime>>
           ELSE IF prompt /\ choice = "cancel"
           THEN /\ EndUse(name, "cancelled")
                /\ UNCHANGED <<settings, mtime>>
           ELSE IF preview \/ (prompt /\ choice = "preview")
           THEN PreviewAndGoOn(name, kv.value, provider,
                               merge \/ (prompt /\ choice = "merge"),
                               prompt /\ choice = "preview")
           ELSE ExportAndGoOn(name, kv.value, provider,
                              merge \/ (prompt /\ choice = "merge"), w)
    /\ UNCHANGED <<envFile, metadata, now, backups, call, modes>>

UseBegin(name, interactive, merge, preview, choice, w) ==
    /\ pc = "idle"
    \* the prompt is asked only with interactive, no --merge and a settings file
    /\ (interactive /\ ~merge /\ settings.kind # "absent") \/ choice = "overwrite"
    /\ environ' = LoadDotenv(envFile, environ)
    /\ LET kv == GetKeyValue(envFile, environ, name)
           prompt == interactive /\ ~merge /\ settings.kind # "absent"
       IN  IF ~kv.ok
           THEN /\ EndUse(name, "KeyError")
                /\ UNCHANGED <<settings, mtime>>
           ELSE IF name \notin MetaNames(metadata)
           THEN /\ EndUse(name, "NotFound")
                /\ UNCHANGED <<settings, mtime>>
           ELSE IF prompt /\ choice = "cancel"
           THEN /\ EndUse(name, "cancelled")
                /\ UNCHANGED <<settings, mtime>>
           ELSE IF preview \/ (prompt /\ choice = "preview")
           THEN PreviewAndGoOn(name, kv.value, GetMetadata(metadata, name).provider,
                               merge \/ (prompt /\ choice = "merge"),
                               prompt /\ choice = "preview")
           ELSE ExportAndGoOn(name, kv.value, GetMetadata(metadata, name).provider,
                              merge \/ (prompt /\ choice = "merge"), w)
    /\ UNCHANGED <<envFile, metadata, now, backups, call, modes>>

UseConfirm(choice, w) ==
    /\ pc = "previewed"
    /\ IF choice = "cancel"
       THEN /\ EndUse(use.name, "cancelled")
            /\ UNCHANGED <<settings, mtime>>
       ELSE ExportAndGoOn(use.name, use.value, use.provider,
                          use.merge \/ choice = "merge", w)
    /\ UNCHANGED <<envFile, environ, metadata, now, backups, call, modes>>

\* use_cmd saving the key as active again when it is already the active one
UseDeactivateRewritesActive(w) ==
    /\ pc = "exported"
    /\ IF ~HasActiveKey(metadata)
       THEN /\ pc' = "deactivated"
            /\ last' = Done("use", use.name, "no active key", NoValue)
            /\ UNCHANGED <<metadata, use, modes>>
       ELSE IF GetActiveKey(metadata).name = use.name
       THEN /\ EndUse(use.name, "already active")
            /\ metadata' = WriteMetadata(metadata,
                  SaveMetadata(metadata, SetActiveKey(metadata, use.name, now), now), w)
            /\ modes' = [modes EXCEPT !.meta = WriteMetadataMode(modes.meta, w)]
       ELSE /\ metadata' = WriteMetadata(metadata,
                  SaveMetadata(metadata,
                      SetInactiveKey(metadata, GetActiveKey(metadata).name, now), now), w)
            /\ modes' = [modes EXCEPT !.meta = WriteMetadataMode(modes.meta, w)]
            /\ IF w = "ok"
               THEN /\ pc' = "deactivated"
                    /\ use' = [use EXCEPT !.previous = GetActiveKey(metadata).name]
                    /\ last' = Done("use", use.name, "deactivated", NoValue)
               ELSE EndUse(use.name, "deactivate failed")
    /\ UNCHANGED <<envFile, environ, settings, now, mtime, backups, call>>

\* use_cmd going on to activate the new key with the previous one left active
UseDeactivateSkipsWrite(w) ==
    /\ pc = "exported"
    /\ IF HasActiveKey(metadata) /\ GetActiveKey(metadata).name = use.name
       THEN EndUse(use.name, "already active")
       ELSE /\ pc' = "deactivated"
            /\ last' = Done("use", use.name, "deactivated", NoValue)
            /\ UNCHANGED use
    /\ UNCHANGED <<envFile, environ, metadata, settings, now, mtime, backups, call, modes>>

UseDeactivate(w) ==
    /\ pc = "exported"
    /\ IF ~HasActiveKey(metadata)
       THEN /\ pc' = "deactivated"
            /\ last' = Done("use", use.name, "no active key", NoValue)
            /\ UNCHANGED <<metadata, use, modes>>
       ELSE IF GetActiveKey(metadata).name = use.name
       THEN /\ EndUse(use.name, "already active")
            /\ UNCHANGED <<metadata, modes>>
       ELSE /\ metadata' = WriteMetadata(metadata,
                  SaveMetadata(metadata,
                      SetInactiveKey(metadata, GetActiveKey(metadata).name, now), now), w)
            /\ modes' = [modes EXCEPT !.meta = WriteMetadataMode(modes.meta, w)]
            /\ IF w = "ok"
               THEN /\ pc' = "deactivated"
                    /\ use' = [use EXCEPT !.previous = GetActiveKey(metadata).name]
                    /\ last' = Done("use", use.name, "deactivated", NoValue)
               ELSE EndUse(use.name, "deactivate failed")
    /\ UNCHANGED <<envFile, environ, settings, now, mtime, backups, call>>

UseActivate(w) ==
    /\ pc = "deactivated"
    /\ IF use.name \notin MetaNames(metadata)
       THEN /\ EndUse(use.name, "KeyError")
            /\ UNCHANGED <<metadata, modes>>
       ELSE /\ metadata' = WriteMetadata(metadata,
                  SaveMetadata(metadata, SetActiveKey(metadata, use.name, now), now), w)
            /\ modes' = [modes EXCEPT !.meta = WriteMetadataMode(modes.meta, w)]
            /\ EndUse(use.name, IF w = "ok" THEN "ok" ELSE "activate failed")
    /\ UNCHANGED <<envFile, environ, settings, now, mtime, backups, call>>

----------------------------------------------------------------------------
(* ConfigValidator: the outcome of validate() on the settings file of an    *)
(* installed Claude Code directory                                          *)

OPTIONAL_TOP_LEVEL_KEYS == {"env", "alwaysThinkingEnabled"}

OPTIONAL_ENV_VARS ==
    {"ANTHROPIC_DEFAULT_HAIKU_MODEL", "ANTHROPIC_DEFAULT_SONNET_MODEL",
     "ANTHROPIC_DEFAULT_OPUS_MODEL", "ANTHROPIC_AUTH_TOKEN", "ANTHROPIC_BASE_URL",
     "API_TIMEOUT_MS", "CLAUDE_CODE_DISABLE_NONESSENTIAL_TRAFFIC"}

MinTokenLength == 20

\* values that are false in a Python condition
Falsy == {<<"0">>, <<"false">>, <<"null">>, <<>>}

\* int(text) for the texts that parse; int raises ValueError for the others
IntOf == ("30000" :> 30000) @@ ("5000" :> 5000) @@ ("0" :> 0) @@ ("-1" :> 0 - 1)

HttpUrls == {PROVIDER_URLS[p] : p \in DOMAIN PROVIDER_URLS}

ValidateStructure(doc) ==
    IF DOMAIN doc.f \ OPTIONAL_TOP_LEVEL_KEYS # {}
    THEN [raises |-> TRUE, errors |-> {"Unknown keys in settings"}]
    ELSE IF "env" \in DOMAIN doc.f /\ DOMAIN doc.f["env"].f \ OPTIONAL_ENV_VARS # {}
    THEN [raises |-> TRUE, errors |-> {"Unknown env vars"}]
    ELSE [raises |-> FALSE, errors |-> {}]

ValidateEnvVars(doc) ==
    IF "env" \notin DOMAIN doc.f THEN {}
    ELSE LET env == doc.f["env"].f
             has(k) == k \in DOMAIN env /\ env[k].v \notin Falsy
         IN  (IF ~has("API_TIMEOUT_MS") THEN {}
              ELSE IF env["API_TIMEOUT_MS"].v[1] \notin DOMAIN IntOf
              THEN {"API_TIMEOUT_MS must be an integer"}
              ELSE IF IntOf[env["API_TIMEOUT_MS"].v[1]] <= 0
              THEN {"API_TIMEOUT_MS must be a positive integer"}
              ELSE {})
             \cup (IF has("ANTHROPIC_AUTH_TOKEN")
                      /\ Len(env["ANTHROPIC_AUTH_TOKEN"].v) < MinTokenLength
                   THEN {"ANTHROPIC_AUTH_TOKEN seems too short"} ELSE {})
             \cup (IF has("ANTHROPIC_BASE_URL")
                      /\ env["ANTHROPIC_BASE_URL"].v \notin HttpUrls
                   THEN {"ANTHROPIC_BASE_URL must start with http:// or https://"}
                   ELSE {})

ConfigValidate(file) ==
    IF file.kind = "absent"
    THEN [res |-> "return", valid |-> FALSE, errors |-> {"Settings file not found"}]
    ELSE IF file.kind = "corrupt"
    THEN [res |-> "return", valid |-> FALSE, errors |-> {"Invalid JSON in settings file"}]
    ELSE LET st == ValidateStructure(file.doc)
             errors == st.errors \cup ValidateEnvVars(file.doc)
         IN  IF st.raises
             THEN [res |-> "ValidationError", valid |-> FALSE, errors |-> st.errors]
             ELSE [res |-> "return", valid |-> errors = {}, errors |-> errors]

\* settings documents to validate: known and unknown keys at both levels
ValidateEnvs ==
    {Obj(f) : f \in UNION {
        {g \in [d -> {Val(<<"30000">>), Val(<<"0">>), Val(<<"abc">>),
                      Val(<<"k">>), Val([i \in 1..MinTokenLength |-> "k"]),
                      Val(<<"x">>)}] :
            /\ "API_TIMEOUT_MS" \in d =>
                  g["API_TIMEOUT_MS"] \in {Val(<<"30000">>), Val(<<"0">>), Val(<<"abc">>)}
            /\ "ANTHROPIC_AUTH_TOKEN" \in d =>
                  g["ANTHROPIC_AUTH_TOKEN"] \in
                     {Val(<<"k">>), Val([i \in 1..MinTokenLength |-> "k"])}
            /\ "MY_VAR" \in d => g["MY_VAR"] = Val(<<"x">>)} :
        d \in SUBSET {"API_TIMEOUT_MS", "ANTHROPIC_AUTH_TOKEN", "MY_VAR"}}}

ValidateDocs ==
    {Obj(f) : f \in UNION {
        {g \in [d -> ValidateEnvs \cup {Val(<<"true">>), Val(<<"dark">>)}] :
            /\ "env" \in d => g["env"] \in ValidateEnvs
            /\ "alwaysThinkingEnabled" \in d => g["alwaysThinkingEnabled"] = Val(<<"true">>)
            /\ "theme" \in d => g["theme"] = Val(<<"dark">>)} :
        d \in SUBSET {"env", "alwaysThinkingEnabled", "theme"}}}

----------------------------------------------------------------------------
(* ExportClaudeSettings called directly.  export_settings is two steps when *)
(* it writes: everything up to and including the backup, then the write of *)
(* settings.json (pc = "writing" in between).                               *)

\* the file name carries datetime.now(); copy2 gives the copy the content and
\* the st_mtime of settings.json; a copy that fails midway leaves a cut file
BackupSettings(bk, file, filetime, t, wb) ==
    IF wb = "unwritten" THEN bk
    ELSE [s \in DOMAIN bk \cup {t} |->
            IF s # t THEN bk[s]
            ELSE IF wb = "ok" THEN [mtime |-> filetime, content |-> file]
            ELSE [mtime |-> t, content |-> Corrupt]]

\* export_settings going on to the write although the backup failed
ExportBeginIgnoresBackupFailure(token, provider, backup, merge, preview, wb) ==
    /\ pc = "idle"
    /\ LET result(res, out) ==
              [fn |-> "export_settings", backup |-> backup, merge |-> merge,
               preview |-> preview, res |-> res, old |-> settings, out |-> out]
       IN  IF merge /\ ~CanLoad(settings)
           THEN /\ call' = result("CorruptConfig", None)
                /\ UNCHANGED <<pc, backups>>
           ELSE IF ~CanPrepare(provider)
           THEN /\ call' = result("ValueError", None)
                /\ UNCHANGED <<pc, backups>>
           ELSE IF preview
           THEN /\ call' = result("preview",
                      GenerateDiff(IF merge /\ settings.kind = "doc" THEN settings.doc
                                   ELSE None,
                                   FinalSettings(settings, token, provider, merge)))
                /\ UNCHANGED <<pc, backups>>
           ELSE IF backup /\ settings.kind # "absent"
           THEN /\ backups' = BackupSettings(backups, settings, mtime, now, wb)
                /\ pc' = "writing"
                /\ call' = result("writing",
                              FinalSettings(settings, token, provider, merge))
           ELSE /\ pc' = "writing"
                /\ call' = result("writing",
                              FinalSettings(settings, token, provider, merge))
                /\ UNCHANGED backups
    /\ UNCHANGED <<envFile, environ, metadata, settings, now, use, last, mtime, modes>>

ExportBegin(token, provider, backup, merge, preview, wb) ==
    /\ pc = "idle"
    /\ LET result(res, out) ==
              [fn |-> "export_settings", backup |-> backup, merge |-> merge,
               preview |-> preview, res |-> res, old |-> settings, out |-> out]
       IN  IF merge /\ ~CanLoad(settings)
           THEN /\ call' = result("CorruptConfig", None)
                /\ UNCHANGED <<pc, backups>>
           ELSE IF ~CanPrepare(provider)
           THEN /\ call' = result("ValueError", None)
                /\ UNCHANGED <<pc, backups>>
           ELSE IF preview
           THEN /\ call' = result("preview",
                      GenerateDiff(IF merge /\ settings.kind = "doc" THEN settings.doc
                                   ELSE None,
                                   FinalSettings(settings, token, provider, merge)))
                /\ UNCHANGED <<pc, backups>>
           ELSE IF backup /\ settings.kind # "absent"
           THEN /\ backups' = BackupSettings(backups, settings, mtime, now, wb)
                /\ IF wb = "ok"
                   THEN /\ pc' = "writing"
                        /\ call' = result("writing",
                                      FinalSettings(settings, token, provider, merge))
                   ELSE /\ call' = result("BackupFailed", None)
                        /\ UNCHANGED pc
           ELSE /\ pc' = "writing"
                /\ call' = result("writing",
                              FinalSettings(settings, token, provider, merge))
                /\ UNCHANGED backups
    /\ UNCHANGED <<envFile, environ, metadata, settings, now, use, last, mtime, modes>>

ExportWrite(w) ==
    /\ pc = "writing"
    /\ settings' = WriteSettings(settings, Doc(call.out), w)
    /\ mtime' = WriteMtime(mtime, now, w)
    /\ pc' = "idle"
    /\ call' = [call EXCEPT !.res = IF w = "ok" THEN "ok" ELSE "IOError"]
    /\ UNCHANGED <<envFile, environ, metadata, now, use, last, backups, modes>>

\* the orders backups.sort(key=st_mtime, reverse=True) can give: st_mtime
\* descending, files of equal st_mtime in the order glob yielded them
ListBackups(bk) ==
    {o \in [1..Cardinality(DOMAIN bk) -> DOMAIN bk] :
        /\ \A i, j \in DOMAIN o : i # j => o[i] # o[j]
        /\ \A i, j \in DOMAIN o : i < j => bk[o[i]].mtime >= bk[o[j]].mtime}

ListBackupsCall ==
    /\ pc = "idle"
    /\ \E o \in ListBackups(backups) :
          call' = [fn |-> "list_backups", out |-> o]
    /\ UNCHANGED <<envFile, environ, metadata, settings, now, pc, use, last, mtime, backups, modes>>

\* cleanup_old_backups removing the first files of the list
ToRemoveNewest(listed, keep) ==
    IF Len(listed) > keep THEN SubSeq(listed, 1, Len(listed) - keep) ELSE <<>>

\* backups[keep:] if len(backups) > keep else []
ToRemove(listed, keep) ==
    IF Len(listed) > keep THEN SubSeq(listed, keep + 1, Len(listed)) ELSE <<>>

\* failed: the files whose unlink raises (the exception is passed over)
CleanupOldBackups(keep, failed) ==
    /\ pc = "idle"
    /\ \E o \in ListBackups(backups) :
          LET to_remove == ToRemove(o, keep)
              removed == {to_remove[i] : i \in DOMAIN to_remove} \ failed
          IN  /\ failed \subseteq {to_remove[i] : i \in DOMAIN to_remove}
              /\ backups' = [s \in DOMAIN backups \ removed |-> backups[s]]
              /\ call' = [fn |-> "cleanup_old_backups", keep |-> keep, failed |-> failed,
                          before |-> backups, out |-> Len(to_remove)]
    /\ UNCHANGED <<envFile, environ, metadata, settings, now, pc, use, last, mtime, modes>>

(* time passes: datetime.now() reads a later clock *)
Tick ==
    /\ now < MaxClock
    /\ now' = now + 1
    /\ UNCHANGED <<envFile, environ, metadata, settings, pc, use, last, mtime, backups, call, modes>>

----------------------------------------------------------------------------
(* The commands run in any order, every write succeeding *)

AddProviders == Providers \cup {"openai"}

Next ==
    \/ \E n \in Names, p \in AddProviders, v \in KeyValues, cli \in BOOLEAN :
          AddCmd(n, p, v, cli, "ok")
    \/ \E n \in Names : DeleteCmd(n, "ok")
    \/ \E n \in Names : GetValue(n)
    \/ \E n \in Names : Deactivate(n, "ok")
    \/ \E n \in Names, i \in BOOLEAN, m \in BOOLEAN, p \in BOOLEAN, c \in PromptChoices :
          UseBegin(n, i, m, p, c, "ok")
    \/ \E c \in ConfirmChoices : UseConfirm(c, "ok")
    \/ UseDeactivate("ok")
    \/ UseActivate("ok")
    \/ NewProcess

Spec == Init /\ [][Next]_vars

(* The commands run in any order and any file write may raise *)

NextFaults ==
    \/ \E n \in Names, p \in {"anthropic", "kimi"}, w \in WriteOutcomes :
          AddCmd(n, p, <<"k">>, TRUE, w)
    \/ \E n \in Names, w \in WriteOutcomes : DeleteCmd(n, w)
    \/ \E n \in Names, w \in WriteOutcomes : Deactivate(n, w)
    \/ \E n \in Names, i \in BOOLEAN, m \in BOOLEAN, p \in BOOLEAN, c \in PromptChoices,
          w \in WriteOutcomes :
          UseBegin(n, i, m, p, c, w)
    \/ \E c \in ConfirmChoices, w \in WriteOutcomes : UseConfirm(c, w)
    \/ \E w \in WriteOutcomes : UseDeactivate(w)
    \/ \E w \in WriteOutcomes : UseActivate(w)
    \/ NewProcess

SpecFaults == Init /\ [][NextFaults]_vars

(* One key name, every value up to MaxValLen characters: the secrets file   *)
(* written and read back, in the same process or in a later one            *)

NextCodec ==
    \/ \E v \in AllValues : AddCmd("WORK", "anthropic", v, TRUE, "ok")
    \/ GetValue("WORK")
    \/ DeleteCmd("WORK", "ok")
    \/ NewProcess

SpecCodec == Init /\ [][NextCodec]_vars

(* Keys added, used, updated through KeyManager.update_key, read and        *)
(* deleted while the clock advances                                         *)

NextUpdate ==
    \/ Tick
    \/ \E n \in Names : AddCmd(n, "anthropic", <<"k">>, TRUE, "ok")
    \/ \E n \in Names : DeleteCmd(n, "ok")
    \/ \E n \in Names : GetValue(n)
    \/ \E n \in Names, v \in {NoValue, <<"n", "e", "w">>}, p \in {NoProvider, "glm"} :
          UpdateKey(n, v, p)
    \/ \E n \in Names : UseBegin(n, FALSE, FALSE, FALSE, "overwrite", "ok")
    \/ UseDeactivate("ok")
    \/ UseActivate("ok")
    \/ NewProcess

SpecUpdate == Init /\ [][NextUpdate]_vars

(* Keys added, activated and deactivated while the clock advances *)

NextClock ==
    \/ Tick
    \/ \E n \in Names : AddCmd(n, "anthropic", <<"k">>, TRUE, "ok")
    \/ \E n \in Names : Deactivate(n, "ok")
    \/ \E n \in Names : UseBegin(n, FALSE, FALSE, FALSE, "overwrite", "ok")
    \/ UseDeactivate("ok")
    \/ UseActivate("ok")

SpecClock == Init /\ [][NextClock]_vars

(* _deep_merge(base, update) on every pair of MergeInputs *)

InitMerge ==
    /\ envFile = <<>>
    /\ environ = <<>>
    /\ metadata = <<>>
    /\ settings = Absent
    /\ now = 0
    /\ pc = "idle"
    /\ use = NoUse
    /\ last = Done("init", "", "ok", NoValue)
    /\ mtime = 0
    /\ backups = <<>>
    /\ modes = SecureModes
    /\ \E in \in MergeInputs : call = [fn |-> "args", base |-> in[1], update |-> in[2]]

DeepMergeCall ==
    /\ call.fn = "args"
    /\ call' = [fn |-> "_deep_merge", base |-> call.base, update |-> call.update,
                out |-> DeepMerge(call.base, call.update),
                swapped |-> DeepMerge(call.update, call.base)]
    /\ UNCHANGED <<envFile, environ, metadata, settings, now, pc, use, last, mtime, backups, modes>>

SpecMerge == InitMerge /\ [][DeepMergeCall]_vars

(* _generate_diff(before, after) on every pair of documents, and on None *)

InitDiff ==
    /\ envFile = <<>>
    /\ environ = <<>>
    /\ metadata = <<>>
    /\ settings = Absent
    /\ now = 0
    /\ pc = "idle"
    /\ use = NoUse
    /\ last = Done("init", "", "ok", NoValue)
    /\ mtime = 0
    /\ backups = <<>>
    /\ modes = SecureModes
    /\ \E b \in JsonDocs \cup {None}, a \in JsonDocs :
          call = [fn |-> "args", before |-> b, after |-> a]

GenerateDiffCall ==
    /\ call.fn = "args"
    /\ call' = [fn |-> "_generate_diff", before |-> call.before, after |-> call.after,
                out |-> GenerateDiff(call.before, call.after)]
    /\ UNCHANGED <<envFile, environ, metadata, settings, now, pc, use, last, mtime, backups, modes>>

SpecDiff == InitDiff /\ [][GenerateDiffCall]_vars

(* export_settings, list_backups and cleanup_old_backups called in any      *)
(* order while the clock advances; the backup and the write may fail        *)

NextExport ==
    \/ Tick
    \/ \E b \in BOOLEAN, m \in BOOLEAN, v \in BOOLEAN, wb \in {"ok", "unwritten"} :
          \* the outcome of the copy matters only when a copy is made
          /\ (b /\ ~v /\ settings.kind # "absent") \/ wb = "ok"
          /\ ExportBegin(<<"k">>, "anthropic", b, m, v, wb)
    \/ \E w \in {"ok", "unwritten"} : ExportWrite(w)
    \/ ListBackupsCall
    \/ \E keep \in 0..MaxKeep, failed \in SUBSET DOMAIN backups :
          CleanupOldBackups(keep, failed)

SpecExport == Init /\ [][NextExport]_vars

(* _prepare_settings(api_keys, provider) for every provider of PROVIDERS     *)
(* and every key value up to MaxValLen characters                           *)

InitPrepare ==
    /\ envFile = <<>>
    /\ environ = <<>>
    /\ metadata = <<>>
    /\ settings = Absent
    /\ now = 0
    /\ pc = "idle"
    /\ use = NoUse
    /\ last = Done("init", "", "ok", NoValue)
    /\ mtime = 0
    /\ backups = <<>>
    /\ modes = SecureModes
    /\ \E v \in AllValues, p \in Providers :
          call = [fn |-> "args", api_keys |-> v, provider |-> p]

PrepareSettingsCall ==
    /\ call.fn = "args"
    /\ call' = [fn |-> "_prepare_settings", api_keys |-> call.api_keys,
                provider |-> call.provider,
                res |-> IF CanPrepare(call.provider) THEN "ok" ELSE "ValueError",
                out |-> IF CanPrepare(call.provider)
                        THEN PrepareSettings(call.api_keys, call.provider) ELSE None]
    /\ UNCHANGED <<envFile, environ, metadata, settings, now, pc, use, last, mtime, backups, modes>>

SpecPrepare == InitPrepare /\ [][PrepareSettingsCall]_vars

(* ConfigValidator.validate() on every settings file of ValidateDocs *)

InitValidate ==
    /\ envFile = <<>>
    /\ environ = <<>>
    /\ metadata = <<>>
    /\ settings \in {Absent, Corrupt} \cup {Doc(d) : d \in ValidateDocs}
    /\ now = 0
    /\ pc = "idle"
    /\ use = NoUse
    /\ last = Done("init", "", "ok", NoValue)
    /\ mtime = 0
    /\ backups = <<>>
    /\ call = NoCall
    /\ modes = SecureModes

ValidateCall ==
    /\ call = NoCall
    /\ modes = SecureModes
    /\ call' = [fn |-> "validate", out |-> ConfigValidate(settings)]
    /\ UNCHANGED <<envFile, environ, metadata, settings, now, pc, use, last, mtime, backups, modes>>

SpecValidate == InitValidate /\ [][ValidateCall]_vars

(* The commands that write the secrets file and the metadata file, run on   *)
(* files that were there before, at least one of them open to other users  *)

InitModes ==
    /\ envFile = <<>>
    /\ environ = <<>>
    /\ metadata = <<>>
    /\ settings = Absent
    /\ now = 0
    /\ pc = "idle"
    /\ use = NoUse
    /\ last = Done("init", "", "ok", NoValue)
    /\ mtime = 0
    /\ backups = <<>>
    /\ call = NoCall
    /\ modes \in InitialModes \ {SecureModes}

NextModes ==
    \/ \E n \in Names : AddCmd(n, "anthropic", <<"k">>, TRUE, "ok")
    \/ \E n \in Names : DeleteCmd(n, "ok")
    \/ \E n \in Names : Deactivate(n, "ok")
    \/ \E n \in Names : UseBegin(n, FALSE, FALSE, FALSE, "overwrite", "ok")
    \/ UseDeactivate("ok")
    \/ UseActivate("ok")
    \/ NewProcess

SpecModes == InitModes /\ [][NextModes]_vars

----------------------------------------------------------------------------
(* Claims *)

\* C1: after every step of any sequence of add, use, deactivate and delete
\* commands from an empty store, at most one metadata record is active
C1_AtMostOneActive == Cardinality(ActiveNames(metadata)) <= 1

\* use has completed with two keys in the store, one of them active
C1_Witness ==
    /\ last.op = "use" /\ last.res = "ok"
    /\ Cardinality(MetaNames(metadata)) = 2
    /\ Cardinality(ActiveNames(metadata)) = 1

\* C2: after each successful activation get_active_key returns the record of
\* the name that was activated last
C2_ActiveIsLastActivated ==
    (last.op = "use" /\ last.res \in {"ok", "already active"}) =>
        /\ HasActiveKey(metadata)
        /\ GetActiveKey(metadata).name = last.name

\* the second key of the metadata file has been activated after the first
C2_Witness ==
    /\ last.op = "use" /\ last.res = "ok"
    /\ Len(metadata) = 2
    /\ metadata[2].name = last.name
    /\ ActiveIndexes(metadata) = {2}

\* C3: when use switches the active key from A to B, A is written inactive
\* before B is written active: no key is active between the two writes, nor
\* after the second write has failed, a key becomes active only in a store
\* with no active key, and A and B are never both active
C3_DeactivateBeforeActivate ==
    /\ [](pc = "deactivated" => ActiveNames(metadata) = {})
    /\ []((last.op = "use" /\ last.res = "activate failed") =>
            ActiveNames(metadata) = {})
    /\ [](Cardinality(ActiveNames(metadata)) <= 1)
    /\ [][ActiveNames(metadata') \ ActiveNames(metadata) # {} =>
            ActiveNames(metadata) = {}]_vars

\* between the two writes of a switch: A has been written inactive, B is not
\* active yet
C3_Witness ==
    /\ pc = "deactivated"
    /\ use.previous # ""
    /\ use.previous # use.name
    /\ use.previous \in MetaNames(metadata)
    /\ ActiveNames(metadata) = {}

\* C4: in use_cmd the metadata writes come only after export_settings has
\* written the settings file (non-preview) without raising: while they are
\* pending the file holds the exported token, the step that runs the export
\* changes no metadata, and when the export raises no metadata record changes
SettingsToken ==
    IF settings.kind = "doc" /\ "env" \in DOMAIN settings.doc.f
       /\ IsObj(settings.doc.f["env"])
       /\ "ANTHROPIC_AUTH_TOKEN" \in DOMAIN settings.doc.f["env"].f
    THEN settings.doc.f["env"].f["ANTHROPIC_AUTH_TOKEN"].v
    ELSE NoValue

C5_PreviewChangesNothing ==
    [][(last'.op = "use" /\ last'.res \in {"preview", "previewed", "cancelled"}) =>
        /\ settings' = settings
        /\ metadata' = metadata
        /\ envFile' = envFile]_vars

\* a preview of switching to another key has been shown over an existing
\* settings document
C5_Witness ==
    /\ last.op = "use" /\ last.res = "preview"
    /\ settings.kind = "doc"
    /\ HasActiveKey(metadata)
    /\ GetActiveKey(metadata).name # last.name

\* C6: for every name, value and provider that add accepts, add followed by
\* get_value(name) returns exactly value
C6_AddThenGetReturnsValue ==
    [][(last.op = "add" /\ last.res = "ok"
        /\ last'.op = "get" /\ last'.name = last.name) =>
            (last'.res = "ok" /\ last'.val = last.val)]_vars

\* C7: after every completed add or delete command a name has a secret if
\* and only if it has a metadata record, and the deleted name has neither
C7_SecretIffMetadata ==
    (last.op \in {"add", "delete"} /\ last.res = "ok") =>
        /\ \A n \in Names : n \in DOMAIN envFile <=> n \in MetaNames(metadata)
        /\ last.op = "delete" =>
              (last.name \notin DOMAIN envFile /\ last.name \notin MetaNames(metadata))

\* one key has been deleted and the other one is still stored
C7_Witness ==
    /\ last.op = "delete" /\ last.res = "ok"
    /\ DOMAIN envFile # {}
    /\ MetaNames(metadata) = DOMAIN envFile

\* C8: add of a name that already has a secret fails (ValueError from
\* add_key, exit from add_cmd's _validate_name) and changes neither store
C8_AddExistingFails ==
    [][(last'.op = "add" /\ last'.name \in DOMAIN envFile) =>
        /\ last'.res \in {"ValueError", "Exit: already exists"}
        /\ envFile' = envFile
        /\ metadata' = metadata]_vars

\* add_key has raised ValueError for a stored name given another value
C8_Witness ==
    /\ last.op = "add" /\ last.res = "ValueError"
    /\ last.name \in DOMAIN envFile
    /\ DecodeEscapes(envFile[last.name]) # last.val

\* C9: add fails with ValidationError whenever the key-format validator
\* rejects the value for the provider, and then writes nothing
C9_AddRejectsInvalidFormat ==
    [][(last'.op = "add" /\ \A p \in Providers : ~KeyValidatorValidate(last'.val, p)) =>
        /\ last'.res = "ValidationError"
        /\ envFile' = envFile
        /\ metadata' = metadata]_vars

\* C10: get_value(name) fails with KeyError whenever the secrets file holds
\* no secret for name, never added or added and then deleted
C10_GetMissingFails ==
    (last.op = "get" /\ last.name \notin DOMAIN envFile) => last.res = "KeyError"

\* C11: delete(name) fails with NotFound only when name has neither a secret
\* nor a metadata record; whenever it succeeds, also from a state where only
\* one of the two existed, name is in neither store afterwards.
C11_DeleteSelfHeals ==
    last.op = "delete" =>
        /\ last.res = "KeyError" =>
              last.name \notin DOMAIN envFile /\ last.name \notin MetaNames(metadata)
        /\ last.res = "ok" =>
              last.name \notin DOMAIN envFile /\ last.name \notin MetaNames(metadata)

\* C12: use of a name that has no metadata record ends with "Key not found"
\* (or the KeyError of the missing secret), changes no metadata record and
\* does not write the settings file.
C12_ActivateUnknownFails ==
    [][(pc = "idle" /\ last'.op = "use" /\ last'.name \notin MetaNames(metadata)) =>
          /\ last'.res \in {"NotFound", "KeyError"}
          /\ pc' = "idle"
          /\ metadata' = metadata
          /\ settings' = settings
          /\ mtime' = mtime]_vars

\* use has refused a name that has a secret and no metadata record
C12_Witness ==
    /\ last.op = "use"
    /\ last.res = "NotFound"
    /\ last.name \in DOMAIN envFile
    /\ last.name \notin MetaNames(metadata)
    /\ MetaNames(metadata) # {}

\* C13: when use_cmd finds that the key is already the active one it writes
\* no metadata: every record keeps its status, created_at and updated_at.
C13_AlreadyActiveWritesNothing ==
    [][(/\ pc = "exported"
        /\ pc' # "exported"
        /\ HasActiveKey(metadata)
        /\ GetActiveKey(metadata).name = use.name) =>
          /\ metadata' = metadata
          /\ pc' = "idle"
          /\ last'.res = "already active"]_vars

\* use has found the key already active at a time later than the record's
\* last write, so that a write would have shown in updated_at
C13_Witness ==
    /\ pc = "idle"
    /\ last.op = "use"
    /\ last.res = "already active"
    /\ HasActiveKey(metadata)
    /\ GetActiveKey(metadata).name = last.name
    /\ GetActiveKey(metadata).updated_at < mtime

\* C14 as stated: a second deactivate of the same name right after a first
\* one succeeds and leaves the metadata file exactly as the first one left it.
C14_DeactivateTwiceSameState ==
    [][(/\ last.op = "deactivate" /\ last.res = "ok"
        /\ last'.op = "deactivate" /\ last'.name = last.name
        /\ now' = now) =>
          /\ last'.res = "ok"
          /\ metadata' = metadata]_vars

\* C14 amended: a second deactivate of the same name right after a first one
\* succeeds and leaves every record as the first one left it, except that the
\* updated_at of the named record is refreshed to the time of the second call.
C14_DeactivateTwiceSameButUpdatedAt ==
    [][(/\ last.op = "deactivate" /\ last.res = "ok"
        /\ last'.op = "deactivate" /\ last'.name = last.name
        /\ now' = now) =>
          /\ last'.res = "ok"
          /\ metadata' = [metadata EXCEPT
                ![MetaIndex(metadata, last.name)].updated_at = now]]_vars

\* a record deactivated at a later time than it was created
C14_Witness ==
    /\ last.op = "deactivate"
    /\ last.res = "ok"
    /\ last.name \in MetaNames(metadata)
    /\ GetMetadata(metadata, last.name).status = "inactive"
    /\ GetMetadata(metadata, last.name).created_at < GetMetadata(metadata, last.name).updated_at
    /\ GetMetadata(metadata, last.name).updated_at = now

\* C15: the merge of update over base has the keys of both; a key of one
\* side only keeps its value; a key of both sides takes update's value,
\* unless both values are objects, which are merged the same way one level
\* down; documents with disjoint keys merge to the same document in either
\* order; the scenario's documents merge to the scenario's result.
C15_DeepMergeRecursive ==
    call.fn = "_deep_merge" =>
        LET b == call.base.f
            u == call.update.f
            o == call.out.f
        IN  /\ IsObj(call.out)
            /\ DOMAIN o = DOMAIN b \cup DOMAIN u
            /\ \A k \in DOMAIN o :
                  IF k \notin DOMAIN u THEN o[k] = b[k]
                  ELSE IF k \notin DOMAIN b THEN o[k] = u[k]
                  ELSE IF ~(IsObj(b[k]) /\ IsObj(u[k])) THEN o[k] = u[k]
                  ELSE /\ IsObj(o[k])
                       /\ DOMAIN o[k].f = DOMAIN b[k].f \cup DOMAIN u[k].f
                       /\ \A j \in DOMAIN o[k].f :
                             o[k].f[j] = IF j \in DOMAIN u[k].f THEN u[k].f[j]
                                         ELSE b[k].f[j]
            /\ DOMAIN b \cap DOMAIN u = {} => call.swapped = call.out
            /\ (call.base = ExampleExisting /\ call.update = ExampleNew) =>
                  call.out = Obj([k \in {"env", "alwaysThinkingEnabled"} |->
                      IF k = "env"
                      THEN Obj([e \in {"API_TIMEOUT_MS", "ANTHROPIC_AUTH_TOKEN"} |->
                              IF e = "API_TIMEOUT_MS" THEN Val(<<"5000">>)
                              ELSE Val(<<"\"tok\"">>)])
                      ELSE Val(<<"true">>)])

\* two documents that both hold an object under the same key, each with a
\* nested key the other lacks, have been merged
C15_Witness ==
    /\ call.fn = "_deep_merge"
    /\ \E k \in DOMAIN call.base.f \cap DOMAIN call.update.f :
          /\ IsObj(call.base.f[k]) /\ IsObj(call.update.f[k])
          /\ DOMAIN call.base.f[k].f \ DOMAIN call.update.f[k].f # {}
          /\ DOMAIN call.update.f[k].f \ DOMAIN call.base.f[k].f # {}
          /\ DOMAIN call.out.f[k].f = DOMAIN call.base.f[k].f \cup DOMAIN call.update.f[k].f

\* C17: the preview's changes are {type: create, added: after} when before
\* is null; otherwise type is update, added holds the top-level keys of
\* after that before lacks, removed the top-level keys of before that after
\* lacks, and modified holds {old, new} for exactly the keys of both whose
\* values differ.
C17_DiffTopLevel ==
    call.fn = "_generate_diff" =>
        LET c == call.out.changes IN
        /\ call.out.before = call.before
        /\ call.out.after = call.after
        /\ IF call.before = None
           THEN c = [type |-> "create", added |-> call.after]
           ELSE LET b == call.before.f
                    a == call.after.f
                IN  /\ c.type = "update"
                    /\ DOMAIN c.added = DOMAIN a \ DOMAIN b
                    /\ \A k \in DOMAIN c.added : c.added[k] = a[k]
                    /\ DOMAIN c.removed = DOMAIN b \ DOMAIN a
                    /\ \A k \in DOMAIN c.removed : c.removed[k] = b[k]
                    /\ DOMAIN c.modified = {k \in DOMAIN a \cap DOMAIN b : a[k] # b[k]}
                    /\ \A k \in DOMAIN c.modified :
                          c.modified[k] = [old |-> b[k], new |-> a[k]]

\* C16: export_settings with merge=True on a settings file that is present
\* and is not JSON raises the IOError of _load_existing_settings and writes
\* nothing: the settings file, the backups and the metadata stay as they were.
C16_CorruptConfigSurfaces ==
    [][(/\ pc = "idle"
        /\ settings.kind = "corrupt"
        /\ call' # call
        /\ call'.fn = "export_settings"
        /\ call'.merge) =>
          /\ call'.res = "CorruptConfig"
          /\ pc' = "idle"
          /\ settings' = settings
          /\ mtime' = mtime
          /\ backups' = backups
          /\ metadata' = metadata]_vars

\* a merge with a backup requested has been refused on an unparseable file
C16_Witness ==
    /\ call.fn = "export_settings"
    /\ call.res = "CorruptConfig"
    /\ call.merge /\ call.backup /\ ~call.preview
    /\ settings = Corrupt
    /\ backups = <<>>

\* C18: an export with backup=True over an existing file writes the
\* destination only after the backup holds a copy of it, and an export whose
\* backup failed has ended with the destination as it was.
C18_BackupBeforeOverwrite ==
    /\ (pc = "writing" /\ call.backup /\ call.old.kind # "absent") =>
          /\ settings = call.old
          /\ \E s \in DOMAIN backups :
                backups[s] = [mtime |-> mtime, content |-> settings]
    /\ (call.fn = "export_settings" /\ call.res = "BackupFailed") =>
          /\ pc = "idle"
          /\ settings = call.old

\* an export with backup has replaced a document of which a backup holds a copy
C18_Witness ==
    /\ call.fn = "export_settings"
    /\ call.res = "ok"
    /\ call.backup
    /\ call.old.kind = "doc"
    /\ settings # call.old
    /\ \E s \in DOMAIN backups : backups[s].content = call.old

\* C19: whenever the settings file changes, also by a write that fails
\* midway, it holds a complete document afterwards.
C19_NoPartialSettings == [][settings' # settings => settings'.kind = "doc"]_vars

\* C20: list_backups returns every backup once, in descending order of
\* modification time; after cleanup_old_backups(keep) with no failing
\* deletion exactly min(n, keep) of the n backups remain, none of them older
\* than a removed one, and n - min(n, keep) is returned.
C20_CleanupKeepsNewest ==
    /\ call.fn = "list_backups" =>
          /\ {call.out[i] : i \in DOMAIN call.out} = DOMAIN backups
          /\ Len(call.out) = Cardinality(DOMAIN backups)
          /\ \A i, j \in DOMAIN call.out :
                i < j => backups[call.out[i]].mtime >= backups[call.out[j]].mtime
    /\ (call.fn = "cleanup_old_backups" /\ call.failed = {}) =>
          LET n == Cardinality(DOMAIN call.before)
              kept == IF n < call.keep THEN n ELSE call.keep
          IN  /\ DOMAIN backups \subseteq DOMAIN call.before
              /\ Cardinality(DOMAIN backups) = kept
              /\ call.out = n - kept
              /\ \A s \in DOMAIN backups : backups[s] = call.before[s]
              /\ \A s \in DOMAIN backups, r \in DOMAIN call.before \ DOMAIN backups :
                    call.before[s].mtime >= call.before[r].mtime

\* a cleanup has removed the older of two backups of different age
C20_Witness ==
    /\ call.fn = "cleanup_old_backups"
    /\ call.failed = {}
    /\ call.keep = 1
    /\ Cardinality(DOMAIN call.before) = 2
    /\ Cardinality(DOMAIN backups) = 1
    /\ \E s \in DOMAIN backups, r \in DOMAIN call.before \ DOMAIN backups :
          call.before[s].mtime > call.before[r].mtime

\* C21: cleanup_old_backups passes over a backup whose deletion fails,
\* removes the others of backups[keep:], and returns the number of backups
\* it has removed.
C21_CleanupReturnsRemoved ==
    call.fn = "cleanup_old_backups" =>
        /\ DOMAIN backups \subseteq DOMAIN call.before
        /\ call.failed \subseteq DOMAIN backups
        /\ call.out = Cardinality(DOMAIN call.before) - Cardinality(DOMAIN backups)

\* C22: for every provider of PROVIDERS, _prepare_settings returns a document
\* with the keys env and alwaysThinkingEnabled, whose env has the seven
\* fields of the schema, the token given, the provider's base URL and the
\* provider's haiku, sonnet and opus models.
C22_PrepareForEveryProvider ==
    call.fn = "_prepare_settings" =>
        /\ call.res = "ok"
        /\ DOMAIN call.out.f = {"env", "alwaysThinkingEnabled"}
        /\ LET env == call.out.f["env"].f IN
           /\ DOMAIN env = {"ANTHROPIC_DEFAULT_HAIKU_MODEL",
                            "ANTHROPIC_DEFAULT_SONNET_MODEL",
                            "ANTHROPIC_DEFAULT_OPUS_MODEL",
                            "ANTHROPIC_AUTH_TOKEN",
                            "ANTHROPIC_BASE_URL",
                            "API_TIMEOUT_MS",
                            "CLAUDE_CODE_DISABLE_NONESSENTIAL_TRAFFIC"}
           /\ env["ANTHROPIC_AUTH_TOKEN"] = Val(call.api_keys)
           /\ env["ANTHROPIC_BASE_URL"] = Val(PROVIDER_URLS[call.provider])
           /\ env["ANTHROPIC_DEFAULT_HAIKU_MODEL"] = Val(PROVIDER_MODELS[call.provider][1])
           /\ env["ANTHROPIC_DEFAULT_SONNET_MODEL"] = Val(PROVIDER_MODELS[call.provider][2])
           /\ env["ANTHROPIC_DEFAULT_OPUS_MODEL"] = Val(PROVIDER_MODELS[call.provider][3])

\* C23: validate() on a settings document with an unknown top-level key or
\* an unknown env key returns (False, errors) with an error for the unknown
\* key; it does not raise and does not accept the document.
C23_UnknownKeyReported ==
    (/\ call.fn = "validate"
     /\ settings.kind = "doc"
     /\ \/ DOMAIN settings.doc.f \ OPTIONAL_TOP_LEVEL_KEYS # {}
        \/ /\ "env" \in DOMAIN settings.doc.f
           /\ DOMAIN settings.doc.f["env"].f \ OPTIONAL_ENV_VARS # {}) =>
        /\ call.out.res = "return"
        /\ ~call.out.valid
        /\ call.out.errors \cap {"Unknown keys in settings", "Unknown env vars"} # {}

C25_CreatedAtNeverChanges ==
    [][\A n \in MetaNames(metadata) \cap MetaNames(metadata') :
          GetMetadata(metadata', n).created_at = GetMetadata(metadata, n).created_at]_vars

\* a record activated by use at a later time than it was created
C25_Witness ==
    /\ last.op = "use"
    /\ last.res = "ok"
    /\ last.name \in MetaNames(metadata)
    /\ GetMetadata(metadata, last.name).status = "active"
    /\ GetMetadata(metadata, last.name).created_at < now
    /\ GetMetadata(metadata, last.name).updated_at = now

\* C26: an update_key call that succeeds for a key with a metadata record
\* and is given a provider leaves the record with that provider and with
\* updated_at at the time of the call.
C26_UpdateChangesRecord ==
    [][(/\ last'.op = "update" /\ last'.res = "ok"
        /\ now' = now
        /\ call'.provider # NoProvider
        /\ last'.name \in MetaNames(metadata)) =>
          /\ last'.name \in MetaNames(metadata')
          /\ GetMetadata(metadata', last'.name).provider = call'.provider
          /\ GetMetadata(metadata', last'.name).updated_at = now]_vars

\* C27: a get_value that follows a successful update_key of the same name
\* with a new value returns that value, with or without a provider argument
\* and whatever the process has read before.
C27_UpdateReplacesSecret ==
    [][(/\ last.op = "update" /\ last.res = "ok" /\ last.val # NoValue
        /\ last'.op = "get" /\ last'.name = last.name) =>
          /\ last'.res = "ok"
          /\ last'.val = last.val]_vars

\* C28: a use of the key that is already the active one changes nothing:
\* the step in which use exports leaves the settings file, its backups and
\* the metadata as they were.
C28_AlreadyActiveDoesNothing ==
    [][(/\ pc # "exported"
        /\ pc' = "exported"
        /\ HasActiveKey(metadata)
        /\ GetActiveKey(metadata).name = use'.name) =>
          /\ settings' = settings
          /\ mtime' = mtime
          /\ backups' = backups
          /\ metadata' = metadata]_vars

\* C29: a preview returned by export_settings has before = None exactly
\* when no settings file was at the destination, and has the document of
\* the file as before whenever the file held one, with merge or without.
C29_PreviewBeforeIsFile ==
    (call.fn = "export_settings" /\ call.res = "preview") =>
        /\ call.out.before = None <=> call.old.kind = "absent"
        /\ call.out.changes.type = "create" <=> call.old.kind = "absent"
        /\ call.old.kind = "doc" => call.out.before = call.old.doc

\* C30: between commands, the token of the settings file is the current
\* secret of the active key, whichever add, use, update_key and delete calls
\* have completed.
C30_SettingsFollowActiveSecret ==
    pc = "idle" =>
        \A n \in ActiveNames(metadata) :
            /\ n \in DOMAIN envFile
            /\ SettingsToken = DecodeEscapes(envFile[n])

====
